---- MODULE Spec2Model ----
(***************************************************************************)
(* Litestream Manager: the client registry (DatabaseManager) of            *)
(* src/main.go, driven by the startup scan and the fsnotify event loop.    *)
(*                                                                         *)
(* Go strings are sequences of one-character strings, so that the path     *)
(* functions (filepath.Base, filepath.Ext, strings.TrimSuffix) and the     *)
(* GUID validation are computed as the code computes them.                 *)
(***************************************************************************)
EXTENDS Integers, Sequences, FiniteSets, TLC

(***************************************************************************)
(* Bounds of the model.                                                    *)
(***************************************************************************)
\* number of files present when the process starts
MaxInitFiles == 2
\* number of file creations/deletions the environment performs during the run
MaxFsOps == 2

(***************************************************************************)
(* Strings.                                                                *)
(***************************************************************************)
\* the characters that occur in the modelled paths, in ASCII order
Alphabet ==
    << "-", ".", "/", "3", "B", "D", "a", "b", "c", "d", "e", "g", "i", "l",
       "n", "o", "p", "q", "s", "t", "u", "v", "w", "x" >>

Code(c) == CHOOSE i \in 1..Len(Alphabet) : Alphabet[i] = c

\* strings.ToLower on the characters of the alphabet
LowerChar(c) == IF c = "B" THEN "b" ELSE IF c = "D" THEN "d" ELSE c

ToLower(s) == [i \in 1..Len(s) |-> LowerChar(s[i])]

\* byte-wise comparison of Go strings (sort.Strings, the order of readDirNames)
RECURSIVE StrLess(_, _)
StrLess(s, t) ==
    IF t = << >> THEN FALSE
    ELSE IF s = << >> THEN TRUE
    ELSE IF Head(s) = Head(t) THEN StrLess(Tail(s), Tail(t))
    ELSE Code(Head(s)) < Code(Head(t))

\* the elements of a finite set of strings in ascending order
RECURSIVE SortStrings(_)
SortStrings(S) ==
    IF S = {} THEN << >>
    ELSE LET m == CHOOSE x \in S : \A y \in S \ {x} : StrLess(x, y)
         IN  << m >> \o SortStrings(S \ {m})

\* index of the last occurrence of character c in s, 0 when there is none
LastIndex(s, c) ==
    LET I == {i \in 1..Len(s) : s[i] = c}
    IN  IF I = {} THEN 0 ELSE CHOOSE i \in I : \A j \in I : j <= i

HasSuffix(s, suf) ==
    /\ Len(suf) <= Len(s)
    /\ SubSeq(s, Len(s) - Len(suf) + 1, Len(s)) = suf

TrimSuffix(s, suf) ==
    IF HasSuffix(s, suf) THEN SubSeq(s, 1, Len(s) - Len(suf)) ELSE s

\* filepath.Base: the last element of the path, trailing slashes removed
RECURSIVE StripTrailingSlashes(_)
StripTrailingSlashes(s) ==
    IF Len(s) > 0 /\ s[Len(s)] = "/"
    THEN StripTrailingSlashes(SubSeq(s, 1, Len(s) - 1))
    ELSE s

Base(path) ==
    IF path = << >> THEN << "." >>
    ELSE LET p == StripTrailingSlashes(path)
         IN  IF p = << >> THEN << "/" >>
             ELSE SubSeq(p, LastIndex(p, "/") + 1, Len(p))

\* filepath.Ext: the suffix from the last dot of the last element, or empty
Ext(path) ==
    LET slash == LastIndex(path, "/")
        dot   == LastIndex(path, ".")
    IN  IF dot > slash THEN SubSeq(path, dot, Len(path)) ELSE << >>

\* filepath.Dir of a cleaned path: everything before the last slash
Dir(path) ==
    LET slash == LastIndex(path, "/")
    IN  IF slash <= 1 THEN << "/" >> ELSE SubSeq(path, 1, slash - 1)

Join(dir, name) == dir \o << "/" >> \o name

(***************************************************************************)
(* Identity extraction.                                                    *)
(***************************************************************************)
GuidLen == 36

\* isValidGUID: length 36 and a hyphen at byte offsets 8, 13, 18 and 23
isValidGUID(s) ==
    IF Len(s) # GuidLen THEN FALSE
    ELSE IF s[9] # "-" \/ s[14] # "-" \/ s[19] # "-" \/ s[24] # "-" THEN FALSE
    ELSE TRUE

\* faulty variant: the identity is normalised to lower case
extractClientID_Lower(dbPath) ==
    LET base == Base(dbPath)
        guid == TrimSuffix(base, Ext(base))
    IN  IF isValidGUID(guid) THEN ToLower(guid) ELSE << >>

\* extractClientID: the base name without its extension when it is a GUID,
\* the empty string otherwise
extractClientID(dbPath) ==
    LET base == Base(dbPath)
        guid == TrimSuffix(base, Ext(base))
    IN  IF isValidGUID(guid) THEN guid ELSE << >>

\* faulty variant: the extension only has to begin with .db or .sqlite
isDatabaseFile_Prefix(filename) ==
    LET ext == ToLower(Ext(filename))
    IN  \E e \in { << ".", "d", "b" >>, << ".", "s", "q", "l", "i", "t", "e" >> } :
            /\ Len(e) <= Len(ext)
            /\ SubSeq(ext, 1, Len(e)) = e

\* isDatabaseFile: the lower-cased extension is .db, .sqlite or .sqlite3
isDatabaseFile(filename) ==
    LET ext == ToLower(Ext(filename))
    IN  \/ ext = << ".", "d", "b" >>
        \/ ext = << ".", "s", "q", "l", "i", "t", "e" >>
        \/ ext = << ".", "s", "q", "l", "i", "t", "e", "3" >>

(***************************************************************************)
(* The modelled file system and configuration.                             *)
(***************************************************************************)
Fill(c, n) == [i \in 1..n |-> c]

\* a GUID-shaped token made of one hexadecimal digit: cccccccc-cccc-cccc-cccc-cccccccccccc
Guid(c) ==
    Fill(c, 8) \o << "-" >> \o Fill(c, 4) \o << "-" >> \o Fill(c, 4)
        \o << "-" >> \o Fill(c, 4) \o << "-" >> \o Fill(c, 12)

DirW == << "/", "w" >>
\* a subdirectory of /w; the directory tree itself does not change
DirWS == << "/", "w", "/", "s" >>

ExtDb == << ".", "d", "b" >>
ExtSqlite == << ".", "s", "q", "l", "i", "t", "e" >>

SubDirs == {DirWS}

FileA == Join(DirW, Guid("a") \o ExtDb)
FileA2 == Join(DirW, Guid("a") \o ExtSqlite)
FileB == Join(DirW, Guid("b") \o ExtDb)

\* client files directly inside /w: two paths of one identity, and another identity
CoreFiles == {FileA, FileA2, FileB}

\* two paths of one identity
TwoPathFiles == {FileA, FileA2}

ExtSqlite3 == << ".", "s", "q", "l", "i", "t", "e", "3" >>
ExtDbUpper == << ".", "D", "B" >>

\* the -wal companion SQLite keeps next to the database FileA
FileWal == Join(DirW, Guid("a") \o ExtDb \o << "-", "w", "a", "l" >>)
\* not-a-guid.db
FileBadStem == Join(DirW, << "n", "o", "t", "-", "a", "-", "g", "u", "i", "d" >> \o ExtDb)
\* an upper-case extension
FileUpper == Join(DirW, Guid("B") \o ExtDbUpper)

\* a client file, its companion, a file that is no client, an upper-case name
NameFiles == {FileA, FileWal, FileBadStem, FileUpper}

\* a second watch directory and a client file inside it
DirV == << "/", "v" >>
FileVb == Join(DirV, Guid("b") \o ExtDb)
TwoDirFiles == {FileA, FileVb}

\* a watch directory with a dot in its name
DirVd == << "/", "v", ".", "d" >>

\* a GUID-shaped token of two digits: cccccccc-dddd-cccc-dddd-cccccccccccc
Token(c, d) ==
    Fill(c, 8) \o << "-" >> \o Fill(d, 4) \o << "-" >> \o Fill(c, 4)
        \o << "-" >> \o Fill(d, 4) \o << "-" >> \o Fill(c, 12)

\* s with its i-th character replaced by c
Replace(s, i, c) == [s EXCEPT ![i] = c]

\* file names the identity extraction is applied to: a token, in a directory,
\* with an extension
TokenDirs == {DirW, DirWS, DirVd}
Tokens == {Token(c, d) : c \in {"3", "B", "a"}, d \in {"D", "a"}}
TokenExts == {ExtDb, ExtSqlite, ExtSqlite3, ExtDbUpper}
TokenFiles == {Join(d, t \o e) : d \in TokenDirs, t \in Tokens, e \in TokenExts}

\* stems that are no tokens: too short, too long, empty, free text, a digit
\* where a hyphen belongs, a hyphen or a letter beyond f where a digit belongs
OtherStems ==
    { SubSeq(Guid("a"), 1, GuidLen - 1), Guid("a") \o << "a" >>, << >>,
      << "n", "o", "t", "-", "a", "-", "g", "u", "i", "d" >>,
      Replace(Guid("a"), 9, "a"), Replace(Guid("a"), 14, "a"),
      Replace(Guid("a"), 19, "a"), Replace(Guid("a"), 24, "a"),
      Guid("g"), Replace(Guid("a"), 1, "x"), Replace(Guid("a"), GuidLen, "g"),
      Replace(Guid("a"), 10, "-"), Fill("-", GuidLen) }
OtherFiles == {Join(DirW, t \o ExtDb) : t \in OtherStems}

NoProc == "none"
Procs == {"main", "loop"}

\* outcomes of registerDatabase / unregisterDatabase
ErrInvalid == "invalid GUID format in filename"
ErrAlready == "client already registered"
ErrConflict == "path already mapped to client"
ErrOpen == "failed to open database"

\* lsdb.Close() returned an error
ErrClose == "failed to close database"
Ok == "nil"
Skipped == "skipped"
\* handleFileEvent returned without calling registerDatabase or unregisterDatabase
Ignored == "ignored"

\* the values registerDatabase can return that are errors
Errors == {ErrInvalid, ErrAlready, ErrConflict, ErrOpen}

\* the bits of fsnotify.Op
Create == "CREATE"
Write == "WRITE"
Remove == "REMOVE"
Rename == "RENAME"
Chmod == "CHMOD"

\* what a configured watch directory can be on disk
IsDir == "directory"
Missing == "does not exist"
NotDir == "not a directory"
NotWritable == "not writable"
\* watcher.Add returned an error
Refused == "watch refused"

NoLocal == [dbPath |-> << >>, clientID |-> << >>, lsdb |-> 0, createdAt |-> 0]

\* no status request is being served
NoRequest ==
    [pc |-> "idle", clientIDs |-> << >>, clients |-> << >>,
     totalClients |-> 0, activeClients |-> 0]

VARIABLES
    watchDirs,      \* dm.watchDirs: the -watch-dir list (never changes)
    dirKind,        \* what each watch directory is on disk (never changes)
    universe,       \* the files that may exist during this run (never changes)
    maxOps,         \* how many steps the environment takes in this run (never changes)
    fs,             \* files that exist
    fsOps,          \* file creations/deletions performed so far
    watched,        \* directories added to the fsnotify watcher
    events,         \* watcher.Events: events not yet received by the loop
    watchErrors,    \* watcher.Errors: errors not yet received by the loop
    watcherClosed,  \* watcher.Close() was called
    ctxDone,        \* dm.cancel() was called
    databases,      \* dm.databases: clientID -> session handle
    clients,        \* dm.clients: clientID -> ClientConfig
    pathIndex,      \* dm.pathIndex: dbPath -> clientID
    sess,           \* every litestream.DB opened so far, by handle
    mutex,          \* holder of dm.mutex.Lock(), or NoProc
    now,            \* time.Now()
    pc,             \* position of each goroutine
    loc,            \* locals of the register/unregister call of each goroutine
    dirIdx,         \* index in watchDirs (Start, scanExistingDatabases)
    todo,           \* entries filepath.Walk still has to visit
    calls,          \* history: <<goroutine, operation, path, outcome>>
    logs,           \* history: what was written with log.Printf
    handler         \* the status request being served: position and locals

vars ==
    << watchDirs, dirKind, universe, maxOps, fs, fsOps, watched, events, watchErrors,
       watcherClosed, ctxDone, databases, clients, pathIndex, sess, mutex, now, pc, loc,
       dirIdx, todo, calls, logs, handler >>

confVars == << watchDirs, dirKind, universe, maxOps >>
fsVars == << confVars, fs, fsOps >>
regVars == << databases, clients, pathIndex >>
scanVars == << dirIdx, todo >>

\* the empty map
EmptyMap == [x \in {} |-> x]

MapPut(m, k, v) == [x \in DOMAIN m \cup {k} |-> IF x = k THEN v ELSE m[x]]

MapDelete(m, k) == [x \in DOMAIN m \ {k} |-> m[x]]

SubsetsUpTo(S, n) == {T \in SUBSET S : Cardinality(T) <= n}

Range(seq) == {seq[i] : i \in DOMAIN seq}

\* the directories that exist: the watch directories that are directories,
\* and their subdirectories
Directories(dirs, kinds) ==
    LET roots == {d \in Range(dirs) : kinds[d] \in {IsDir, NotWritable}}
    IN  roots \cup {sd \in SubDirs : Dir(sd) \in roots}

\* the state after NewDatabaseManager(bucket, dirs), with some files of U
\* already there; the environment takes at most limit steps
InitConf(dirs, kinds, U, limit) ==
    /\ watchDirs = dirs
    /\ dirKind = kinds
    /\ universe = U
    /\ maxOps = limit
    /\ fs \in SubsetsUpTo({f \in U : Dir(f) \in Directories(dirs, kinds)}, MaxInitFiles)
    /\ fsOps = 0
    /\ watched = {}
    /\ events = << >>
    /\ watchErrors = 0
    /\ watcherClosed = FALSE
    /\ ctxDone = FALSE
    /\ databases = EmptyMap
    /\ clients = EmptyMap
    /\ pathIndex = EmptyMap
    /\ sess = << >>
    /\ mutex = NoProc
    /\ now = 0
    /\ pc = [p \in Procs |-> IF p = "main" THEN "add_watch" ELSE "not_started"]
    /\ loc = [p \in Procs |-> NoLocal]
    /\ dirIdx = 1
    /\ todo = << >>
    /\ calls = {}
    /\ logs = {}
    /\ handler = NoRequest

\* every watch directory exists and is writable
InitWith(dirs, U) ==
    InitConf(dirs, [d \in Range(dirs) |-> IsDir], U, MaxFsOps)

\* one watch directory, /w, and the client files directly inside it
Init == InitWith(<< DirW >>, CoreFiles)

(***************************************************************************)
(* Registry helpers (the statements of registerDatabase, unregisterDatabase *)
(* and Stop that read or change the three maps and the sessions).          *)
(***************************************************************************)
\* faulty variant: the lock excludes nobody
LockFree_Always(m) == TRUE

\* dm.mutex.Lock() can be taken
LockFree(m) == m = NoProc

\* faulty variant: the existence check of line 494 is missing
AlreadyRegistered_Never(dbs, clientID) == FALSE

\* _, exists := dm.databases[clientID]
AlreadyRegistered(dbs, clientID) == clientID \in DOMAIN dbs

\* _, exists := dm.pathIndex[dbPath]
PathMapped(pidx, dbPath) == dbPath \in DOMAIN pidx


\* the -bucket flag, kept in dm.bucket by NewDatabaseManager
Bucket == "bucket"

\* faulty variant: every client replicates to the same remote path
S3Path_Shared(clientID) == << "d", "a", "t", "a", "b", "a", "s", "e", "s", "/" >>

\* fmt.Sprintf("databases/%s", clientID), lines 516 and 740
S3Path(clientID) == << "d", "a", "t", "a", "b", "a", "s", "e", "s", "/" >> \o clientID

\* litestream.NewDB(dbPath) followed by a successful lsdb.Open()
OpenSession(s, clientID, dbPath) ==
    Append(s, [clientID |-> clientID, dbPath |-> dbPath, state |-> "open",
               Bucket |-> Bucket, Path |-> S3Path(clientID)])

\* faulty variant: a failed open leaves the session running
FailedOpen_LeavesSession(s, clientID, dbPath) ==
    Append(s, [clientID |-> clientID, dbPath |-> dbPath, state |-> "open",
               Bucket |-> Bucket, Path |-> S3Path(clientID)])

\* a failed lsdb.Open(): the DB object is dropped, no session runs
FailedOpen(s, clientID, dbPath) == s

\* faulty variant: the session is not closed
CloseSession_Noop(s, h) == s

\* lsdb.Close()
CloseSession(s, h) == [s EXCEPT ![h].state = "closed"]

\* faulty variant: the loop stops after the first session
SoftCloseAll_StopsOne(s, dbs) ==
    [h \in DOMAIN s |->
        IF /\ DOMAIN dbs # {}
           /\ h = dbs[CHOOSE id \in DOMAIN dbs : \A other \in DOMAIN dbs : dbs[id] <= dbs[other]]
           /\ s[h].state = "open"
        THEN [s[h] EXCEPT !.state = "softclosed"]
        ELSE s[h]]

\* db.SoftClose() on every value of dm.databases
SoftCloseAll(s, dbs) ==
    [h \in DOMAIN s |->
        IF (\E id \in DOMAIN dbs : dbs[id] = h) /\ s[h].state = "open"
        THEN [s[h] EXCEPT !.state = "softclosed"]
        ELSE s[h]]

\* dm.databases[clientID] = lsdb
InsertDatabase(dbs, clientID, lsdb) == MapPut(dbs, clientID, lsdb)

\* faulty variant: the record replaces the records of the other clients
InsertClient_Replace(cl, clientID, dbPath, createdAt) ==
    MapPut(EmptyMap, clientID,
           [ClientID |-> clientID, DatabasePath |-> dbPath, CreatedAt |-> createdAt])

\* dm.clients[clientID] = config
InsertClient(cl, clientID, dbPath, createdAt) ==
    MapPut(cl, clientID,
           [ClientID |-> clientID, DatabasePath |-> dbPath, CreatedAt |-> createdAt])

\* dm.pathIndex[dbPath] = clientID
InsertPath(pidx, dbPath, clientID) == MapPut(pidx, dbPath, clientID)

\* delete(dm.databases, clientID)
DeleteDatabase(dbs, clientID) == MapDelete(dbs, clientID)

\* faulty variant: the record stays in dm.clients
DeleteClient_Keep(cl, clientID) == cl

\* delete(dm.clients, clientID)
DeleteClient(cl, clientID) == MapDelete(cl, clientID)

\* faulty variant: the path stays in dm.pathIndex
DeletePath_Keep(pidx, dbPath) == pidx

\* delete(dm.pathIndex, dbPath)
DeletePath(pidx, dbPath) == MapDelete(pidx, dbPath)

\* isClientRegistered (under RLock)
isClientRegistered(dbs, clientID) == clientID \in DOMAIN dbs

\* where a goroutine continues when its register/unregister call returns
ReturnPc(p) == IF p = "main" THEN "scan_next" ELSE "select"

\* the caller's handling of the value registerDatabase returned:
\* scanExistingDatabases logs an error, handleFileEvent drops it
CallerLog(p, dbPath, err) ==
    IF p = "main" /\ err # Ok
    THEN {<< "Failed to register existing database", dbPath, err >>}
    ELSE {}

Returns(p, op, dbPath, result) ==
    /\ pc' = [pc EXCEPT ![p] = ReturnPc(p)]
    /\ loc' = [loc EXCEPT ![p] = NoLocal]
    /\ calls' = calls \cup {<< p, op, dbPath, result >>}

(***************************************************************************)
(* registerDatabase                                                        *)
(***************************************************************************)
\* lines 484-508: take the lock, extract the identity, refuse or go on
RegisterCheck(p) ==
    /\ pc[p] = "reg_lock"
    /\ LockFree(mutex)
    /\ now' = now + 1
    /\ LET dbPath == loc[p].dbPath
           clientID == extractClientID(dbPath)
           refusal ==
               IF clientID = << >> THEN ErrInvalid
               ELSE IF AlreadyRegistered(databases, clientID) THEN ErrAlready
               ELSE IF PathMapped(pathIndex, dbPath) THEN ErrConflict
               ELSE Ok
       IN  IF refusal # Ok
           THEN /\ Returns(p, "register", dbPath, refusal)
                /\ logs' = logs \cup CallerLog(p, dbPath, refusal)
                /\ UNCHANGED mutex
           ELSE /\ mutex' = p
                /\ pc' = [pc EXCEPT ![p] = "reg_open"]
                /\ loc' = [loc EXCEPT ![p].clientID = clientID,
                                      ![p].createdAt = now']
                /\ UNCHANGED << calls, logs >>
    /\ UNCHANGED << fsVars, handler, watched, events, watchErrors, watcherClosed, ctxDone, regVars,
                    sess, scanVars >>

\* faulty variant: the path index is written before lsdb.Open() and stays
\* when the open fails
RegisterOpen_InsertsFirst(p) ==
    /\ pc[p] = "reg_open"
    /\ \E opened \in BOOLEAN :
          IF opened
          THEN /\ sess' = OpenSession(sess, loc[p].clientID, loc[p].dbPath)
               /\ loc' = [loc EXCEPT ![p].lsdb = Len(sess')]
               /\ pc' = [pc EXCEPT ![p] = "reg_insert"]
               /\ UNCHANGED << mutex, calls, logs, pathIndex >>
          ELSE /\ sess' = FailedOpen(sess, loc[p].clientID, loc[p].dbPath)
               /\ pathIndex' = InsertPath(pathIndex, loc[p].dbPath, loc[p].clientID)
               /\ mutex' = NoProc
               /\ Returns(p, "register", loc[p].dbPath, ErrOpen)
               /\ logs' = logs \cup CallerLog(p, loc[p].dbPath, ErrOpen)
    /\ UNCHANGED << fsVars, handler, watched, events, watchErrors, watcherClosed, ctxDone,
                    databases, clients, now, scanVars >>


\* faulty variant: the return for a failed open leaves the lock taken
RegisterOpen_KeepsLock(p) ==
    /\ pc[p] = "reg_open"
    /\ \E opened \in BOOLEAN :
          IF opened
          THEN /\ sess' = OpenSession(sess, loc[p].clientID, loc[p].dbPath)
               /\ loc' = [loc EXCEPT ![p].lsdb = Len(sess')]
               /\ pc' = [pc EXCEPT ![p] = "reg_insert"]
               /\ UNCHANGED << mutex, calls, logs >>
          ELSE /\ sess' = FailedOpen(sess, loc[p].clientID, loc[p].dbPath)
               /\ UNCHANGED mutex
               /\ Returns(p, "register", loc[p].dbPath, ErrOpen)
               /\ logs' = logs \cup CallerLog(p, loc[p].dbPath, ErrOpen)
    /\ UNCHANGED << fsVars, handler, watched, events, watchErrors, watcherClosed, ctxDone, regVars,
                    now, scanVars >>

\* lines 510-525: lsdb.Open() succeeds or fails
RegisterOpen(p) ==
    /\ pc[p] = "reg_open"
    /\ \E opened \in BOOLEAN :
          IF opened
          THEN /\ sess' = OpenSession(sess, loc[p].clientID, loc[p].dbPath)
               /\ loc' = [loc EXCEPT ![p].lsdb = Len(sess')]
               /\ pc' = [pc EXCEPT ![p] = "reg_insert"]
               /\ UNCHANGED << mutex, calls, logs >>
          ELSE /\ sess' = FailedOpen(sess, loc[p].clientID, loc[p].dbPath)
               /\ mutex' = NoProc
               /\ Returns(p, "register", loc[p].dbPath, ErrOpen)
               /\ logs' = logs \cup CallerLog(p, loc[p].dbPath, ErrOpen)
    /\ UNCHANGED << fsVars, handler, watched, events, watchErrors, watcherClosed, ctxDone, regVars,
                    now, scanVars >>

\* line 528: dm.databases[clientID] = lsdb
RegisterInsertDatabase(p) ==
    /\ pc[p] = "reg_insert"
    /\ databases' = InsertDatabase(databases, loc[p].clientID, loc[p].lsdb)
    /\ pc' = [pc EXCEPT ![p] = "reg_insert_client"]
    /\ UNCHANGED << fsVars, handler, watched, events, watchErrors, watcherClosed, ctxDone, clients,
                    pathIndex, sess, mutex, now, loc, scanVars, calls, logs >>

\* line 529: dm.clients[clientID] = config
RegisterInsertClient(p) ==
    /\ pc[p] = "reg_insert_client"
    /\ clients' = InsertClient(clients, loc[p].clientID, loc[p].dbPath,
                               loc[p].createdAt)
    /\ pc' = [pc EXCEPT ![p] = "reg_insert_path"]
    /\ UNCHANGED << fsVars, handler, watched, events, watchErrors, watcherClosed, ctxDone, databases,
                    pathIndex, sess, mutex, now, loc, scanVars, calls, logs >>

\* lines 530-535: dm.pathIndex[dbPath] = clientID, log, unlock, return nil
RegisterInsertPath(p) ==
    /\ pc[p] = "reg_insert_path"
    /\ pathIndex' = InsertPath(pathIndex, loc[p].dbPath, loc[p].clientID)
    /\ mutex' = NoProc
    /\ Returns(p, "register", loc[p].dbPath, Ok)
    /\ logs' = logs \cup {<< "Client registered", loc[p].clientID >>}
    /\ UNCHANGED << fsVars, handler, watched, events, watchErrors, watcherClosed, ctxDone, databases,
                    clients, sess, now, scanVars >>

(***************************************************************************)
(* unregisterDatabase                                                      *)
(***************************************************************************)
\* faulty variant: the identity is taken from the file name, not from the
\* path index
UnregisterLookup_ByIdentity(p) ==
    /\ pc[p] = "unreg_lock"
    /\ LockFree(mutex)
    /\ IF ~AlreadyRegistered(databases, extractClientID(loc[p].dbPath))
       THEN /\ Returns(p, "unregister", loc[p].dbPath, Skipped)
            /\ UNCHANGED mutex
       ELSE /\ mutex' = p
            /\ pc' = [pc EXCEPT ![p] = "unreg_close"]
            /\ loc' = [loc EXCEPT ![p].clientID = extractClientID(loc[p].dbPath)]
            /\ UNCHANGED calls
    /\ UNCHANGED << fsVars, handler, watched, events, watchErrors, watcherClosed, ctxDone, regVars,
                    sess, now, scanVars, logs >>

\* lines 540-547: take the lock, look the path up
UnregisterLookup(p) ==
    /\ pc[p] = "unreg_lock"
    /\ LockFree(mutex)
    /\ IF ~PathMapped(pathIndex, loc[p].dbPath)
       THEN /\ Returns(p, "unregister", loc[p].dbPath, Skipped)
            /\ UNCHANGED mutex
       ELSE /\ mutex' = p
            /\ pc' = [pc EXCEPT ![p] = "unreg_close"]
            /\ loc' = [loc EXCEPT ![p].clientID = pathIndex[loc[p].dbPath]]
            /\ UNCHANGED calls
    /\ UNCHANGED << fsVars, handler, watched, events, watchErrors, watcherClosed, ctxDone, regVars,
                    sess, now, scanVars, logs >>

\* faulty variant: an error of Close is returned to the caller, and the
\* record stays
UnregisterClose_ReturnsError(p) ==
    /\ pc[p] = "unreg_close"
    /\ IF loc[p].clientID \in DOMAIN databases
       THEN /\ sess' = CloseSession(sess, databases[loc[p].clientID])
            /\ \E err \in {Ok, ErrClose} :
                  IF err = Ok
                  THEN /\ pc' = [pc EXCEPT ![p] = "unreg_delete"]
                       /\ UNCHANGED << mutex, loc, calls >>
                  ELSE /\ mutex' = NoProc
                       /\ pc' = [pc EXCEPT ![p] = ReturnPc(p)]
                       /\ loc' = [loc EXCEPT ![p] = NoLocal]
                       /\ calls' = calls \cup {<< p, "close", loc[p].dbPath, err >>,
                                                << p, "unregister", loc[p].dbPath, err >>}
       ELSE /\ pc' = [pc EXCEPT ![p] = "unreg_delete"]
            /\ UNCHANGED << sess, mutex, loc, calls >>
    /\ UNCHANGED << fsVars, handler, watched, events, watchErrors, watcherClosed, ctxDone, regVars,
                    now, scanVars, logs >>

\* lines 549-553: close the session when there is one; what lsdb.Close()
\* returns is dropped (the session has stopped replicating in either case)
UnregisterClose(p) ==
    /\ pc[p] = "unreg_close"
    /\ IF loc[p].clientID \in DOMAIN databases
       THEN /\ sess' = CloseSession(sess, databases[loc[p].clientID])
            /\ \E err \in {Ok, ErrClose} :
                  calls' = IF err = Ok
                           THEN calls
                           ELSE calls \cup {<< p, "close", loc[p].dbPath, err >>}
       ELSE UNCHANGED << sess, calls >>
    /\ pc' = [pc EXCEPT ![p] = "unreg_delete"]
    /\ UNCHANGED << fsVars, handler, watched, events, watchErrors, watcherClosed, ctxDone, regVars,
                    mutex, now, loc, scanVars, logs >>

\* line 556: delete(dm.databases, clientID)
UnregisterDeleteDatabase(p) ==
    /\ pc[p] = "unreg_delete"
    /\ databases' = DeleteDatabase(databases, loc[p].clientID)
    /\ pc' = [pc EXCEPT ![p] = "unreg_delete_client"]
    /\ UNCHANGED << fsVars, handler, watched, events, watchErrors, watcherClosed, ctxDone, clients,
                    pathIndex, sess, mutex, now, loc, scanVars, calls, logs >>

\* line 557: delete(dm.clients, clientID)
UnregisterDeleteClient(p) ==
    /\ pc[p] = "unreg_delete_client"
    /\ clients' = DeleteClient(clients, loc[p].clientID)
    /\ pc' = [pc EXCEPT ![p] = "unreg_delete_path"]
    /\ UNCHANGED << fsVars, handler, watched, events, watchErrors, watcherClosed, ctxDone, databases,
                    pathIndex, sess, mutex, now, loc, scanVars, calls, logs >>

\* lines 558-562: delete(dm.pathIndex, dbPath), log, unlock, return nil
UnregisterDeletePath(p) ==
    /\ pc[p] = "unreg_delete_path"
    /\ pathIndex' = DeletePath(pathIndex, loc[p].dbPath)
    /\ mutex' = NoProc
    /\ Returns(p, "unregister", loc[p].dbPath, Ok)
    /\ logs' = logs \cup {<< "Client unregistered", loc[p].clientID >>}
    /\ UNCHANGED << fsVars, handler, watched, events, watchErrors, watcherClosed, ctxDone, databases,
                    clients, sess, now, scanVars >>

(***************************************************************************)
(* Start: the watch subscriptions, the event loop, the startup scan.       *)
(***************************************************************************)
\* addWatchDir, lines 403-426: what it can return for a directory of this
\* kind; watcher.Add (line 425) is reached only for a writable directory
addWatchDir(kind) ==
    IF kind = IsDir THEN {Ok, Refused} ELSE {kind}

\* faulty variant: Start gives up at the first directory it cannot watch
NextWatchDir_Abort(idx, err) ==
    IF err # Ok THEN Len(watchDirs) + 1 ELSE idx + 1

\* lines 370-376: the loop goes on with the next directory, whatever
\* addWatchDir returned (continue, line 373)
NextWatchDir(idx, err) == idx + 1

\* lines 370-376 with addWatchDir: the subscription of one directory
\* succeeds, or fails and is logged (the test file of lines 419-423 is
\* written and removed before the directory is watched, and is no database
\* file)
AddWatchDir ==
    /\ pc["main"] = "add_watch"
    /\ dirIdx <= Len(watchDirs)
    /\ \E err \in addWatchDir(dirKind[watchDirs[dirIdx]]) :
          /\ IF err = Ok
             THEN /\ watched' = watched \cup {watchDirs[dirIdx]}
                  /\ logs' = logs \cup {<< "Watching directory", watchDirs[dirIdx] >>}
             ELSE /\ logs' = logs \cup {<< "Failed to watch directory", watchDirs[dirIdx], err >>}
                  /\ UNCHANGED watched
          /\ dirIdx' = NextWatchDir(dirIdx, err)
    /\ UNCHANGED << fsVars, handler, events, watchErrors, watcherClosed, ctxDone, regVars, sess, mutex,
                    now, pc, loc, todo, calls >>

\* line 379: go dm.watchFiles(), then line 382 enters scanExistingDatabases
StartLoop ==
    /\ pc["main"] = "add_watch"
    /\ dirIdx > Len(watchDirs)
    /\ pc' = [pc EXCEPT !["main"] = "scan_root", !["loop"] = "select"]
    /\ dirIdx' = 1
    /\ UNCHANGED << fsVars, handler, watched, events, watchErrors, watcherClosed, ctxDone, regVars,
                    sess, mutex, now, loc, todo, calls, logs >>

\* the entries of directory d, as readDirNames returns them (sorted)
ReadDir(d) ==
    SortStrings({f \in fs : Dir(f) = d} \cup {sd \in SubDirs : Dir(sd) = d})

\* lines 567-568: filepath.Walk reads the next watch directory; after the
\* last one the scan ends (lines 589-594) and Start returns
ScanRoot ==
    /\ pc["main"] = "scan_root"
    /\ IF dirIdx <= Len(watchDirs)
       THEN LET root == watchDirs[dirIdx] IN
            IF dirKind[root] = Missing
            THEN \* lstat of the root fails: the callback returns the error
                 /\ logs' = logs \cup {<< "Failed to scan directory", root >>}
                 /\ dirIdx' = dirIdx + 1
                 /\ UNCHANGED << todo, pc, loc, calls >>
            ELSE IF dirKind[root] = NotDir
            THEN \* the root is a file: the callback is called for it alone
                 /\ IF isDatabaseFile(root) /\ extractClientID(root) # << >>
                    THEN /\ loc' = [loc EXCEPT !["main"].dbPath = root]
                         /\ pc' = [pc EXCEPT !["main"] = "scan_isreg"]
                         /\ UNCHANGED dirIdx
                    ELSE /\ dirIdx' = dirIdx + 1
                         /\ UNCHANGED << pc, loc >>
                 /\ UNCHANGED << todo, calls, logs >>
            ELSE /\ todo' = ReadDir(root)
                 /\ pc' = [pc EXCEPT !["main"] = "scan_next"]
                 /\ UNCHANGED << loc, dirIdx, calls, logs >>
       ELSE \* lines 589-594: count the clients under RLock, return nil
            /\ LockFree(mutex)
            /\ todo' = << >>
            /\ pc' = [pc EXCEPT !["main"] = "serving"]
            /\ calls' = calls \cup {<< "main", "Start", << >>, Ok >>}
            /\ UNCHANGED << loc, dirIdx, logs >>
    /\ UNCHANGED << fsVars, handler, watched, events, watchErrors, watcherClosed, ctxDone, regVars,
                    sess, mutex, now >>

\* lines 568-582: filepath.Walk visits the next entry: lstat, then the callback
ScanNext ==
    /\ pc["main"] = "scan_next"
    /\ IF todo = << >>
       THEN \* the walk of this directory is over
            /\ dirIdx' = dirIdx + 1
            /\ pc' = [pc EXCEPT !["main"] = "scan_root"]
            /\ UNCHANGED << todo, loc, logs >>
       ELSE LET e == Head(todo) IN
            IF e \in SubDirs
            THEN \* a directory: the callback does nothing, the walk descends
                 /\ todo' = ReadDir(e) \o Tail(todo)
                 /\ UNCHANGED << dirIdx, pc, loc, logs >>
            ELSE IF e \notin fs
            THEN \* lstat fails: the callback returns the error, Walk stops
                 /\ todo' = << >>
                 /\ dirIdx' = dirIdx + 1
                 /\ pc' = [pc EXCEPT !["main"] = "scan_root"]
                 /\ logs' = logs \cup {<< "Failed to scan directory", watchDirs[dirIdx] >>}
                 /\ UNCHANGED loc
            ELSE IF isDatabaseFile(e) /\ extractClientID(e) # << >>
            THEN /\ todo' = Tail(todo)
                 /\ loc' = [loc EXCEPT !["main"].dbPath = e]
                 /\ pc' = [pc EXCEPT !["main"] = "scan_isreg"]
                 /\ UNCHANGED << dirIdx, logs >>
            ELSE /\ todo' = Tail(todo)
                 /\ UNCHANGED << dirIdx, pc, loc, logs >>
    /\ UNCHANGED << fsVars, handler, watched, events, watchErrors, watcherClosed, ctxDone, regVars,
                    sess, mutex, now, calls >>

\* line 575: !dm.isClientRegistered(clientID), read under RLock
ScanIsRegistered ==
    /\ pc["main"] = "scan_isreg"
    /\ LockFree(mutex)
    /\ IF isClientRegistered(databases, extractClientID(loc["main"].dbPath))
       THEN Returns("main", "register", loc["main"].dbPath, Skipped)
       ELSE /\ pc' = [pc EXCEPT !["main"] = "reg_lock"]
            /\ UNCHANGED << loc, calls >>
    /\ UNCHANGED << fsVars, handler, watched, events, watchErrors, watcherClosed, ctxDone, regVars,
                    sess, mutex, now, scanVars, logs >>

(***************************************************************************)
(* watchFiles and handleFileEvent                                          *)
(***************************************************************************)
\* faulty variant: a write counts as a create
HasOp_WriteIsCreate(op, bit) == bit \in op \/ (bit = Create /\ Write \in op)

\* event.Op&bit == bit
HasOp(op, bit) == bit \in op

\* lines 434-438 and 449-466: receive one event and dispatch it
LoopEvent ==
    /\ pc["loop"] = "select"
    /\ events # << >>
    /\ LET event == Head(events) IN
       /\ events' = Tail(events)
       /\ IF ~isDatabaseFile(event.Name)
          THEN /\ calls' = calls \cup {<< "loop", "event", event.Name, Ignored >>}
               /\ UNCHANGED << pc, loc >>
          ELSE IF HasOp(event.Op, Create)
          THEN /\ pc' = [pc EXCEPT !["loop"] = "reg_lock"]
               /\ loc' = [loc EXCEPT !["loop"].dbPath = event.Name]
               /\ UNCHANGED calls
          ELSE IF HasOp(event.Op, Remove)
          THEN /\ pc' = [pc EXCEPT !["loop"] = "unreg_lock"]
               /\ loc' = [loc EXCEPT !["loop"].dbPath = event.Name]
               /\ UNCHANGED calls
          ELSE /\ calls' = calls \cup {<< "loop", "event", event.Name, Ignored >>}
               /\ UNCHANGED << pc, loc >>
    /\ UNCHANGED << fsVars, handler, watched, watchErrors, watcherClosed, ctxDone, regVars, sess,
                    mutex, now, scanVars, logs >>

\* lines 432-433: the context is cancelled
LoopCtxDone ==
    /\ pc["loop"] = "select"
    /\ ctxDone
    /\ pc' = [pc EXCEPT !["loop"] = "exited"]
    /\ UNCHANGED << fsVars, handler, watched, events, watchErrors, watcherClosed, ctxDone, regVars,
                    sess, mutex, now, loc, scanVars, calls, logs >>

\* lines 435-437: the Events channel was closed
LoopChannelClosed ==
    /\ pc["loop"] = "select"
    /\ watcherClosed
    /\ events = << >>
    /\ pc' = [pc EXCEPT !["loop"] = "exited"]
    /\ UNCHANGED << fsVars, handler, watched, events, watchErrors, watcherClosed, ctxDone, regVars,
                    sess, mutex, now, loc, scanVars, calls, logs >>

(***************************************************************************)
(* The environment: files appear and disappear; fsnotify reports what      *)
(* happens directly inside a subscribed directory.                         *)
(***************************************************************************)
\* faulty variant: the newest event is received first
Notify_Prepend(q, op, f) ==
    IF Dir(f) \in watched /\ ~watcherClosed
    THEN << [Op |-> {op}, Name |-> f] >> \o q
    ELSE q

Notify(q, op, f) ==
    IF Dir(f) \in watched /\ ~watcherClosed
    THEN Append(q, [Op |-> {op}, Name |-> f])
    ELSE q

FsCreate ==
    /\ fsOps < maxOps
    /\ \E f \in universe \ fs :
          /\ Dir(f) \in Directories(watchDirs, dirKind)
          /\ fs' = fs \cup {f}
          /\ events' = Notify(events, Create, f)
    /\ fsOps' = fsOps + 1
    /\ UNCHANGED << confVars, handler, watched, watchErrors, watcherClosed, ctxDone, regVars, sess,
                    mutex, now, pc, loc, scanVars, calls, logs >>

FsRemove ==
    /\ fsOps < maxOps
    /\ \E f \in fs :
          /\ fs' = fs \ {f}
          /\ events' = Notify(events, Remove, f)
    /\ fsOps' = fsOps + 1
    /\ UNCHANGED << confVars, handler, watched, watchErrors, watcherClosed, ctxDone, regVars, sess,
                    mutex, now, pc, loc, scanVars, calls, logs >>

(***************************************************************************)
(* Shutdown: runDirectoryMode receives the signal and runs Stop.           *)
(***************************************************************************)
\* lines 311-313 and 387: the signal arrives after Start returned; dm.cancel()
StopCancel ==
    /\ pc["main"] = "serving"
    /\ ctxDone' = TRUE
    /\ pc' = [pc EXCEPT !["main"] = "stop_close"]
    /\ UNCHANGED << fsVars, handler, watched, events, watchErrors, watcherClosed, regVars, sess, mutex,
                    now, loc, scanVars, calls, logs >>

\* line 388: dm.watcher.Close(); what was not received is dropped
StopCloseWatcher ==
    /\ pc["main"] = "stop_close"
    /\ watcherClosed' = TRUE
    /\ events' = << >>
    /\ watchErrors' = 0
    /\ pc' = [pc EXCEPT !["main"] = "stop_lock"]
    /\ UNCHANGED << fsVars, handler, watched, ctxDone, regVars, sess, mutex, now, loc,
                    scanVars, calls, logs >>

\* line 390: dm.mutex.Lock()
StopLock ==
    /\ pc["main"] = "stop_lock"
    /\ LockFree(mutex)
    /\ mutex' = "main"
    /\ pc' = [pc EXCEPT !["main"] = "stop_softclose"]
    /\ UNCHANGED << fsVars, handler, watched, events, watchErrors, watcherClosed, ctxDone, regVars,
                    sess, now, loc, scanVars, calls, logs >>

\* faulty variant: Stop returns without releasing the lock
StopSoftClose_KeepsLock ==
    /\ pc["main"] = "stop_softclose"
    /\ sess' = SoftCloseAll(sess, databases)
    /\ logs' = logs \cup {<< "Stopped replication", id >> : id \in DOMAIN databases}
    /\ pc' = [pc EXCEPT !["main"] = "stopped"]
    /\ UNCHANGED << fsVars, handler, watched, events, watchErrors, watcherClosed, ctxDone, regVars,
                    mutex, now, loc, scanVars, calls >>

\* lines 394-399: SoftClose every session, unlock
StopSoftClose ==
    /\ pc["main"] = "stop_softclose"
    /\ sess' = SoftCloseAll(sess, databases)
    /\ logs' = logs \cup {<< "Stopped replication", id >> : id \in DOMAIN databases}
    /\ mutex' = NoProc
    /\ pc' = [pc EXCEPT !["main"] = "stopped"]
    /\ UNCHANGED << fsVars, handler, watched, events, watchErrors, watcherClosed, ctxDone, regVars,
                    now, loc, scanVars, calls >>

Next ==
    \/ AddWatchDir
    \/ StartLoop
    \/ ScanRoot
    \/ ScanNext
    \/ ScanIsRegistered
    \/ \E p \in Procs : RegisterCheck(p)
    \/ \E p \in Procs : RegisterOpen(p)
    \/ \E p \in Procs : RegisterInsertDatabase(p)
    \/ \E p \in Procs : RegisterInsertClient(p)
    \/ \E p \in Procs : RegisterInsertPath(p)
    \/ \E p \in Procs : UnregisterLookup(p)
    \/ \E p \in Procs : UnregisterClose(p)
    \/ \E p \in Procs : UnregisterDeleteDatabase(p)
    \/ \E p \in Procs : UnregisterDeleteClient(p)
    \/ \E p \in Procs : UnregisterDeletePath(p)
    \/ LoopEvent
    \/ LoopCtxDone
    \/ LoopChannelClosed
    \/ FsCreate
    \/ FsRemove
    \/ StopCancel
    \/ StopCloseWatcher
    \/ StopLock
    \/ StopSoftClose

Spec == Init /\ [][Next]_vars

(***************************************************************************)
(* Further configurations of the same program.                             *)
(***************************************************************************)
\* two paths of one identity, and one more step of the environment
InitTwoPaths ==
    InitConf(<< DirW >>, [d \in {DirW} |-> IsDir], TwoPathFiles, MaxFsOps + 1)

SpecTwoPaths == InitTwoPaths /\ [][Next]_vars

\* files that are no client files next to one that is
InitNames == InitWith(<< DirW >>, NameFiles)

SpecNames == InitNames /\ [][Next]_vars

\* one file, named by a token or by another stem
InitIdentity ==
    \E f \in TokenFiles \cup OtherFiles :
        InitWith(<< IF Dir(f) = DirVd THEN DirVd ELSE DirW >>, {f})

SpecIdentity == InitIdentity /\ [][Next]_vars

\* two watch directories, each of them a writable directory, missing, a
\* file, or a directory that is not writable
InitTwoDirs ==
    \E kinds \in [{DirV, DirW} -> {IsDir, Missing, NotDir, NotWritable}] :
        InitConf(<< DirV, DirW >>, kinds, TwoDirFiles, MaxFsOps)

SpecTwoDirs == InitTwoDirs /\ [][Next]_vars

(***************************************************************************)
(* An environment that also writes, renames and changes the mode of files, *)
(* and a watcher that reports errors.                                      *)
(***************************************************************************)
FsWrite ==
    /\ fsOps < maxOps
    /\ \E f \in fs : events' = Notify(events, Write, f)
    /\ fsOps' = fsOps + 1
    /\ UNCHANGED << confVars, handler, fs, watched, watchErrors, watcherClosed, ctxDone, regVars,
                    sess, mutex, now, pc, loc, scanVars, calls, logs >>

FsChmod ==
    /\ fsOps < maxOps
    /\ \E f \in fs : events' = Notify(events, Chmod, f)
    /\ fsOps' = fsOps + 1
    /\ UNCHANGED << confVars, handler, fs, watched, watchErrors, watcherClosed, ctxDone, regVars,
                    sess, mutex, now, pc, loc, scanVars, calls, logs >>

\* f is renamed to g: a rename event for the old name, a create event for
\* the new one
FsRename ==
    /\ fsOps < maxOps
    /\ \E f \in fs : \E g \in universe \ fs :
          /\ Dir(g) \in Directories(watchDirs, dirKind)
          /\ fs' = (fs \ {f}) \cup {g}
          /\ events' = Notify(Notify(events, Rename, f), Create, g)
    /\ fsOps' = fsOps + 1
    /\ UNCHANGED << confVars, handler, watched, watchErrors, watcherClosed, ctxDone, regVars,
                    sess, mutex, now, pc, loc, scanVars, calls, logs >>

\* the watcher puts an error on watcher.Errors
WatcherError ==
    /\ fsOps < maxOps
    /\ ~watcherClosed
    /\ watchErrors' = watchErrors + 1
    /\ fsOps' = fsOps + 1
    /\ UNCHANGED << confVars, handler, fs, watched, events, watcherClosed, ctxDone, regVars,
                    sess, mutex, now, pc, loc, scanVars, calls, logs >>

\* faulty variant: the loop returns when the watcher reports an error
AfterWatcherError_Exit == "exited"

\* line 443 is the last statement of its case: the for loop goes on
AfterWatcherError == "select"

\* lines 439-443: receive one error and log it
LoopError ==
    /\ pc["loop"] = "select"
    /\ watchErrors > 0
    /\ watchErrors' = watchErrors - 1
    /\ logs' = logs \cup {<< "File watcher error" >>}
    /\ pc' = [pc EXCEPT !["loop"] = AfterWatcherError]
    /\ UNCHANGED << fsVars, handler, watched, events, watcherClosed, ctxDone, regVars, sess,
                    mutex, now, loc, scanVars, calls >>

NextEvents ==
    \/ Next
    \/ FsWrite
    \/ FsChmod
    \/ FsRename
    \/ WatcherError
    \/ LoopError

InitEvents == InitWith(<< DirW >>, {FileA, FileB})

SpecEvents == InitEvents /\ [][NextEvents]_vars

(***************************************************************************)
(* The status server: the handlers of "/" and "/api/status" (lines         *)
(* 669-713 and 715-759) run the same steps; the JSON one also reports the  *)
(* number of sessions.  The server is started once Start has returned      *)
(* (line 308).                                                             *)
(***************************************************************************)
\* the orders in which "for clientID := range dm.clients" can yield the keys
Orders(S) == {order \in [1..Cardinality(S) -> S] : Range(order) = S}

\* faulty variant: the identities are left in the order of the map iteration
SortIDs_None(clientIDs) == clientIDs

\* sort.Strings(clientIDs), lines 680 and 726
SortIDs(clientIDs) == SortStrings(Range(clientIDs))

\* lines 670 and 716: dm.mutex.RLock(); the unlock is deferred
StatusRLock ==
    /\ handler.pc = "idle"
    /\ pc["main"] \in {"serving", "stop_close", "stop_lock", "stop_softclose", "stopped"}
    /\ LockFree(mutex)
    /\ mutex' = "status"
    /\ handler' = [handler EXCEPT !.pc = "collect"]
    /\ UNCHANGED << fsVars, watched, events, watchErrors, watcherClosed, ctxDone, regVars,
                    sess, now, pc, loc, scanVars, calls, logs >>

\* lines 676-680 and 722-726: collect the keys of dm.clients, sort them
StatusCollect ==
    /\ handler.pc = "collect"
    /\ \E order \in Orders(DOMAIN clients) :
          handler' = [handler EXCEPT !.pc = "build", !.clientIDs = SortIDs(order)]
    /\ UNCHANGED << fsVars, watched, events, watchErrors, watcherClosed, ctxDone, regVars,
                    sess, mutex, now, pc, loc, scanVars, calls, logs >>

\* lines 682-699 and 728-745: one entry per collected identity, from
\* dm.clients[clientID] and the presence of dm.databases[clientID] (an
\* identity that is no longer in dm.clients has a nil config, shown here as
\* the empty path)
StatusBuild ==
    /\ handler.pc = "build"
    /\ handler' =
          [handler EXCEPT
              !.pc = "count",
              !.clients =
                  [i \in DOMAIN handler.clientIDs |->
                      LET clientID == handler.clientIDs[i] IN
                      [clientId |-> clientID,
                       s3Path |-> S3Path(clientID),
                       databasePath |-> IF clientID \in DOMAIN clients
                                        THEN clients[clientID].DatabasePath
                                        ELSE << >>,
                       status |-> IF clientID \in DOMAIN databases
                                  THEN "active"
                                  ELSE "inactive"]]]
    /\ UNCHANGED << fsVars, watched, events, watchErrors, watcherClosed, ctxDone, regVars,
                    sess, mutex, now, pc, loc, scanVars, calls, logs >>

\* lines 701-708 and 747-754: len(dm.clients) and len(dm.databases)
StatusCount ==
    /\ handler.pc = "count"
    /\ handler' = [handler EXCEPT !.pc = "encode",
                                  !.totalClients = Cardinality(DOMAIN clients),
                                  !.activeClients = Cardinality(DOMAIN databases)]
    /\ UNCHANGED << fsVars, watched, events, watchErrors, watcherClosed, ctxDone, regVars,
                    sess, mutex, now, pc, loc, scanVars, calls, logs >>

\* lines 710 and 756: the response is rendered and written to the client
StatusEncode ==
    /\ handler.pc = "encode"
    /\ handler' = [handler EXCEPT !.pc = "written"]
    /\ UNCHANGED << fsVars, watched, events, watchErrors, watcherClosed, ctxDone, regVars,
                    sess, mutex, now, pc, loc, scanVars, calls, logs >>

\* lines 671 and 717: the deferred dm.mutex.RUnlock() runs when the handler
\* returns
StatusRUnlock ==
    /\ handler.pc = "written"
    /\ mutex' = NoProc
    /\ handler' = NoRequest
    /\ UNCHANGED << fsVars, watched, events, watchErrors, watcherClosed, ctxDone, regVars,
                    sess, now, pc, loc, scanVars, calls, logs >>

NextStatus ==
    \/ Next
    \/ StatusRLock
    \/ StatusCollect
    \/ StatusBuild
    \/ StatusCount
    \/ StatusEncode
    \/ StatusRUnlock

\* one watch directory with the files of two clients, and status requests
InitStatus == InitWith(<< DirW >>, {FileA, FileB})

SpecStatus == InitStatus /\ [][NextStatus]_vars

\* two watch directories; two files of one client that differ in extension,
\* and a file of another client in the other directory; status requests
InitRemote ==
    InitConf(<< DirV, DirW >>, [d \in {DirV, DirW} |-> IsDir], {FileA, FileA2, FileVb},
             MaxFsOps - 1)

SpecRemote == InitRemote /\ [][NextStatus]_vars

\* what the lock of the registry and the proviso "every session open and
\* stop call returns" guarantee.  A goroutine blocked in dm.mutex.Lock()
\* (lines 484, 540) gets the lock if the lock keeps becoming free:
\* sync.RWMutex does not starve a waiter.  A goroutine that holds the lock
\* goes on to its deferred unlock: the session calls made under the lock
\* return (lines 523, 552, 395), and so does the write of a status response
\* (lines 710, 756).  The select of watchFiles (lines 431-444) returns when
\* one of its closed channels stays the only thing to receive from.  Nothing
\* is assumed about the scan, the handling of events that are delivered, the
\* file operations, the shutdown signal or the arrival of requests
Fairness ==
    LET Lock(p) ==
            /\ pc[p] \in {"reg_lock", "unreg_lock"}
            /\ LockFree(mutex)
            /\ \E next \in {"reg_open", "unreg_close", ReturnPc(p)} :
                  pc' = [pc EXCEPT ![p] = next]
        Locked(p) ==
            \/ RegisterOpen(p)
            \/ RegisterInsertDatabase(p)
            \/ RegisterInsertClient(p)
            \/ RegisterInsertPath(p)
            \/ UnregisterClose(p)
            \/ UnregisterDeleteDatabase(p)
            \/ UnregisterDeleteClient(p)
            \/ UnregisterDeletePath(p)
        Handler ==
            \/ StatusCollect
            \/ StatusBuild
            \/ StatusCount
            \/ StatusEncode
            \/ StatusRUnlock
    IN  /\ \A p \in Procs : SF_pc(Lock(p)) /\ WF_vars(Locked(p))
        /\ WF_vars(StopSoftClose)
        /\ WF_vars(Handler)
        /\ WF_vars(LoopCtxDone \/ LoopChannelClosed)

\* one watch directory and one client file; the environment takes one step
\* fewer than elsewhere
InitLive == InitConf(<< DirW >>, [d \in {DirW} |-> IsDir], {FileA}, MaxFsOps - 1)

SpecLive == InitLive /\ [][NextStatus]_vars /\ Fairness

\* a client file in the subdirectory /w/s of the watch directory /w
FileSc == Join(DirWS, Guid("c") \o ExtDb)

\* one watch directory, a client file directly inside it and one in its
\* subdirectory
InitNested == InitWith(<< DirW >>, {FileA, FileSc})

SpecNested == InitNested /\ [][Next]_vars

(***************************************************************************)
(* Vocabulary of the properties.                                           *)
(***************************************************************************)
\* sessions that were opened and not stopped
LiveSessions == {h \in DOMAIN sess : sess[h].state = "open"}

LiveSessionsOf(id) == {h \in LiveSessions : sess[h].clientID = id}

SessionsOf(id) == {h \in DOMAIN sess : sess[h].clientID = id}

\* nobody holds dm.mutex exclusively
Observable == mutex = NoProc

\* the scan has finished, the process is running, and the event loop has
\* handled every event that was delivered
Quiescent ==
    /\ pc["main"] = "serving"
    /\ pc["loop"] = "select"
    /\ events = << >>

RegisterCalls(f) == {c \in calls : c[2] = "register" /\ c[3] = f}

CallsAbout(id) == {c \in calls : extractClientID(c[3]) = id}

(***************************************************************************)
(* C1. In every reachable state the registry holds at most one record per  *)
(* identity and at most one record per path: every record is stored under  *)
(* its own identity, no two records have the same path, and no two entries *)
(* of the path index map to the same identity.                             *)
(***************************************************************************)
C1_OneRecordPerIdentityAndPath ==
    /\ \A id \in DOMAIN clients : clients[id].ClientID = id
    /\ \A id1, id2 \in DOMAIN clients :
          clients[id1].DatabasePath = clients[id2].DatabasePath => id1 = id2
    /\ \A p1, p2 \in DOMAIN pathIndex :
          pathIndex[p1] = pathIndex[p2] => p1 = p2

\* two clients are registered, one by the startup scan and one by the event
\* loop
C1_Witness ==
    /\ Cardinality(DOMAIN pathIndex) = 2
    /\ \E c \in calls : c[1] = "loop" /\ c[2] = "register" /\ c[4] = Ok
    /\ \E c \in calls : c[1] = "main" /\ c[2] = "register" /\ c[4] = Ok

(***************************************************************************)
(* C2. Whenever the lock is not held exclusively the three maps agree:     *)
(* databases and clients have the same keys, pathIndex[p] = id exactly     *)
(* when clients[id].DatabasePath = p, and no map has a dangling entry.     *)
(***************************************************************************)
C2_MapsAgree ==
    Observable =>
        /\ DOMAIN databases = DOMAIN clients
        /\ \A p \in DOMAIN pathIndex :
              /\ pathIndex[p] \in DOMAIN clients
              /\ clients[pathIndex[p]].DatabasePath = p
        /\ \A id \in DOMAIN clients :
              /\ clients[id].DatabasePath \in DOMAIN pathIndex
              /\ pathIndex[clients[id].DatabasePath] = id

\* a client was unregistered while another one stays registered
C2_Witness ==
    /\ Observable
    /\ DOMAIN clients # {}
    /\ \E c \in calls : c[2] = "unregister" /\ c[4] = Ok

(***************************************************************************)
(* C3. At every observable point, during and after shutdown included,      *)
(* every record in the registry has exactly one live session, and every    *)
(* live session belongs to a record.                                       *)
(***************************************************************************)
C3_EveryRecordHasLiveSession ==
    Observable =>
        /\ \A id \in DOMAIN clients : Cardinality(LiveSessionsOf(id)) = 1
        /\ \A h \in LiveSessions : sess[h].clientID \in DOMAIN clients

(***************************************************************************)
(* C4. Whenever the lock is not held exclusively, every live session is    *)
(* the session of a record of the registry; a refused or failed            *)
(* registration leaves no session behind.                                  *)
(***************************************************************************)
C4_NoSessionWithoutRecord ==
    Observable =>
        \A h \in LiveSessions :
            LET id == sess[h].clientID IN
            /\ id \in DOMAIN databases
            /\ databases[id] = h
            /\ id \in DOMAIN clients
            /\ clients[id].DatabasePath = sess[h].dbPath

\* a session open failed and a refused registration happened, while a client
\* is registered with its session running
C4_Witness ==
    /\ Observable
    /\ LiveSessions # {}
    /\ \E c \in calls : c[4] = ErrOpen
    /\ \E c \in calls : c[4] = ErrAlready

(***************************************************************************)
(* C5. A session for an identity is never opened while an earlier session  *)
(* for the same identity is live: of two sessions of one identity, the     *)
(* earlier one has been stopped.                                           *)
(***************************************************************************)
C5_NoOverlappingSessions ==
    \A h1, h2 \in DOMAIN sess :
        (h1 < h2 /\ sess[h1].clientID = sess[h2].clientID)
            => sess[h1].state # "open"

\* an identity was registered again after its first session was stopped
C5_Witness ==
    \E h1, h2 \in DOMAIN sess :
        /\ h1 < h2
        /\ sess[h1].clientID = sess[h2].clientID
        /\ sess[h2].state = "open"

(***************************************************************************)
(* C6. When the startup scan and a create event both discover the same     *)
(* valid client file (no open failed and the client was not unregistered), *)
(* exactly one record results and the session was opened exactly once; the *)
(* losing attempt was refused as already registered, or skipped.           *)
(***************************************************************************)
C6_ScanAndCreateConverge ==
    \A f \in universe :
        LET id == extractClientID(f)
            won == {c \in RegisterCalls(f) : c[4] = Ok}
        IN
        ( /\ Observable
          /\ id # << >>
          /\ \E c \in RegisterCalls(f) : c[1] = "main"
          /\ \E c \in RegisterCalls(f) : c[1] = "loop"
          /\ \A c \in CallsAbout(id) :
                c[4] # ErrOpen /\ ~(c[2] = "unregister" /\ c[4] = Ok) )
        =>
        /\ Cardinality(SessionsOf(id)) = 1
        /\ id \in DOMAIN clients
        /\ id \in DOMAIN databases
        /\ \A c \in RegisterCalls(f) : c[4] \in {Ok, ErrAlready, Skipped}
        /\ Cardinality(won) <= 1
        /\ (\A c \in CallsAbout(id) : c[3] = f)
              => (Cardinality(won) = 1 /\ clients[id].DatabasePath = f)

\* the scan and a create event both tried to register the same file, one of
\* them registered it and the other one was refused or skipped
C6_Witness ==
    \E f \in universe :
        /\ Observable
        /\ \E c \in RegisterCalls(f) : c[1] = "main" /\ c[4] \in {ErrAlready, Skipped}
        /\ \E c \in RegisterCalls(f) : c[1] = "loop" /\ c[4] = Ok
        /\ \A c \in CallsAbout(extractClientID(f)) : c[3] = f /\ c[2] = "register"

(***************************************************************************)
(* C7. Once the scan has finished and every delivered event has been       *)
(* handled, every registered path of a subscribed directory refers to a    *)
(* file that still exists.                                                 *)
(***************************************************************************)
C7_NoOrphanAfterReconciliation ==
    Quiescent =>
        \A f \in DOMAIN pathIndex : Dir(f) \in watched => f \in fs

(***************************************************************************)
(* C8. Once the scan has finished and every delivered event has been       *)
(* handled, every existing file with an allowed extension and a valid      *)
(* identity stem, directly in a subscribed directory, with no other        *)
(* existing file of the same identity and no failed session open, is       *)
(* registered under its path.                                              *)
(***************************************************************************)
C8_AppearanceDetected ==
    Quiescent =>
        \A f \in fs :
            LET id == extractClientID(f) IN
            ( /\ isDatabaseFile(f)
              /\ id # << >>
              /\ Dir(f) \in watched
              /\ \A g \in fs : extractClientID(g) = id => g = f
              /\ \A c \in calls : c[4] # ErrOpen )
            => (f \in DOMAIN pathIndex /\ pathIndex[f] = id)

(***************************************************************************)
(* C9. Handling a remove event of a registered path: inside one exclusive  *)
(* critical section the session is stopped first, then the record and both *)
(* index entries are removed; when the handler returns the identity is not *)
(* registered and the path is not in the path index.                       *)
(***************************************************************************)
C9_StopThenRemove ==
    [][\A p \in Procs :
          LET id == loc[p].clientID
              f == loc[p].dbPath
              removing ==
                  pc[p] \in {"unreg_close", "unreg_delete", "unreg_delete_client",
                             "unreg_delete_path"}
          IN
          \* the critical section is held from the lookup to the return
          /\ removing => mutex = p
          /\ (removing /\ pc'[p] # ReturnPc(p)) => mutex' = p
          \* nothing leaves a map while its session is live
          /\ (removing /\ (DOMAIN databases' # DOMAIN databases
                            \/ DOMAIN clients' # DOMAIN clients
                            \/ DOMAIN pathIndex' # DOMAIN pathIndex))
                => LiveSessionsOf(id) = {}
          \* on return everything is gone
          /\ (removing /\ pc'[p] = ReturnPc(p))
                => /\ f \notin DOMAIN pathIndex'
                   /\ id \notin DOMAIN databases'
                   /\ id \notin DOMAIN clients'
                   /\ {h \in LiveSessions' : sess'[h].clientID = id} = {}
                   /\ mutex' = NoProc
      ]_vars

\* the event loop has handled a remove event of a registered path
C9_Witness ==
    /\ << "loop", "unregister", FileA, Ok >> \in calls
    /\ pc["loop"] = "select"
    /\ FileA \notin DOMAIN pathIndex

(***************************************************************************)
(* C10. registerDatabase for a path whose identity already has a record    *)
(* returns the already-registered error, opens no session, and leaves the  *)
(* three maps (record count, the record's path and creation time)          *)
(* unchanged.                                                              *)
(***************************************************************************)
C10_RegisterTwiceRefused ==
    [][\A p \in Procs :
          ( /\ pc[p] = "reg_lock"
            /\ pc'[p] # "reg_lock"
            /\ extractClientID(loc[p].dbPath) \in DOMAIN clients )
          =>
          /\ pc'[p] = ReturnPc(p)
          /\ << p, "register", loc[p].dbPath, ErrAlready >> \in calls'
          /\ UNCHANGED << databases, clients, pathIndex, sess, mutex >>
      ]_vars

\* the same path was registered and then refused, and so was a second path
\* of the same identity
C10_Witness ==
    /\ << "loop", "register", FileA, ErrAlready >> \in calls
    /\ << "loop", "register", FileA2, ErrAlready >> \in calls
    /\ FileA \in DOMAIN pathIndex

(***************************************************************************)
(* C11. unregisterDatabase for a path that is not in the path index (never *)
(* registered, already unregistered, or a second path of an identity that  *)
(* is registered under another path) returns no error, stops no session    *)
(* and leaves the three maps unchanged; and when unregisterDatabase(p) has  *)
(* removed a record, p is not in the path index, so that a second          *)
(* unregisterDatabase(p) is such a call.                                   *)
(***************************************************************************)
C11_UnregisterAbsentIsNoop ==
    [][\A p \in Procs :
          /\ ( /\ pc[p] = "unreg_lock"
               /\ pc'[p] # "unreg_lock"
               /\ loc[p].dbPath \notin DOMAIN pathIndex )
             =>
             /\ pc'[p] = ReturnPc(p)
             /\ \E r \in {Ok, Skipped} :
                   << p, "unregister", loc[p].dbPath, r >> \in calls'
             /\ \A c \in calls' \ calls : c[4] \notin Errors
             /\ UNCHANGED << databases, clients, pathIndex, sess, mutex, logs >>
          /\ ( /\ pc[p] \in {"unreg_close", "unreg_delete", "unreg_delete_client",
                              "unreg_delete_path"}
               /\ pc'[p] = ReturnPc(p) )
             => loc[p].dbPath \notin DOMAIN pathIndex'
      ]_vars

\* the scan registered FileA and skipped FileA2, a second path of the same
\* identity; FileA2 was then deleted and its remove event handled, and FileA
\* is still registered with its only session
C11_Witness ==
    /\ << "main", "register", FileA, Ok >> \in calls
    /\ << "main", "register", FileA2, Skipped >> \in calls
    /\ << "loop", "unregister", FileA2, Skipped >> \in calls
    /\ fsOps = 1
    /\ FileA2 \notin fs
    /\ FileA \in DOMAIN pathIndex
    /\ Len(sess) = 1
    /\ LiveSessions = {1}

(***************************************************************************)
(* C12. When the session open fails during registerDatabase the error is   *)
(* returned and nothing is inserted: databases, clients and pathIndex are  *)
(* as before the call, and the client is in none of them, so that no       *)
(* status read shows it.                                                   *)
(***************************************************************************)
C12_FailedOpenInsertsNothing ==
    [][\A p \in Procs :
          ( /\ pc[p] = "reg_open"
            /\ pc'[p] # "reg_open"
            /\ Len(sess') = Len(sess) )
          =>
          /\ pc'[p] = ReturnPc(p)
          /\ << p, "register", loc[p].dbPath, ErrOpen >> \in calls'
          /\ UNCHANGED << databases, clients, pathIndex >>
          /\ loc[p].clientID \notin DOMAIN clients'
          /\ loc[p].clientID \notin DOMAIN databases'
          /\ loc[p].dbPath \notin DOMAIN pathIndex'
          /\ mutex' = NoProc
      ]_vars

\* the event loop tried to register FileA and the open failed: the file is
\* there, the loop is idle again, and the registry is empty
C12_Witness ==
    /\ << "loop", "register", FileA, ErrOpen >> \in calls
    /\ FileA \in fs
    /\ pc["loop"] = "select"
    /\ events = << >>
    /\ Observable
    /\ DOMAIN clients = {}
    /\ DOMAIN pathIndex = {}
    /\ sess = << >>

(***************************************************************************)
(* C13. A registration refused by a session-open failure leaves nothing    *)
(* behind: a later attempt for the same path is refused as already         *)
(* registered or as a path conflict only when a session that was opened    *)
(* successfully and not unregistered since holds the identity or the path, *)
(* and an attempt whose open succeeds registers the client under its path. *)
(***************************************************************************)
C13_RetryAfterFailedOpen ==
    [][\A p \in Procs :
          LET f == loc[p].dbPath
              id == extractClientID(f)
          IN
          /\ ( /\ pc[p] = "reg_lock"
               /\ pc'[p] # "reg_lock"
               /\ id # << >> )
             =>
             IF \E h \in DOMAIN sess :
                   /\ sess[h].state # "closed"
                   /\ sess[h].clientID = id \/ sess[h].dbPath = f
             THEN pc'[p] = ReturnPc(p)
             ELSE pc'[p] = "reg_open"
          /\ ( /\ pc[p] = "reg_insert_path"
               /\ pc'[p] # "reg_insert_path" )
             =>
             /\ << p, "register", f, Ok >> \in calls'
             /\ f \in DOMAIN pathIndex'
             /\ pathIndex'[f] = id
             /\ id \in DOMAIN clients'
             /\ clients'[id].DatabasePath = f
             /\ {h \in LiveSessions' : sess'[h].clientID = id} = {databases'[id]}
      ]_vars

\* the open for FileA failed, and a later create event for FileA registered
\* it: FileA is registered with the only session that was ever opened
C13_Witness ==
    /\ \E c \in calls : c[2] = "register" /\ c[3] = FileA /\ c[4] = ErrOpen
    /\ << "loop", "register", FileA, Ok >> \in calls
    /\ FileA \in DOMAIN pathIndex
    /\ Len(sess) = 1
    /\ LiveSessions = {1}
    /\ Observable

(***************************************************************************)
(* C14. registerDatabase for a path whose stem is no valid identity        *)
(* returns an outcome that is not an error, opens no session and leaves    *)
(* the three maps unchanged; and a directory that holds one valid client   *)
(* file and one file with an invalid stem has exactly one record when the  *)
(* startup scan has finished (no open having failed).                      *)
(***************************************************************************)
C14_InvalidStemIsNoError ==
    /\ [][\A p \in Procs :
             ( /\ pc[p] = "reg_lock"
               /\ pc'[p] # "reg_lock"
               /\ extractClientID(loc[p].dbPath) = << >> )
             =>
             /\ pc'[p] = ReturnPc(p)
             /\ \A r \in Errors : << p, "register", loc[p].dbPath, r >> \notin calls'
             /\ UNCHANGED << databases, clients, pathIndex, sess, mutex >>
         ]_vars
    /\ []( ( /\ pc["main"] = "serving"
             /\ fsOps = 0
             /\ fs = {FileA, FileBadStem}
             /\ \A c \in calls : c[4] # ErrOpen )
           => /\ DOMAIN clients = {Guid("a")}
              /\ DOMAIN pathIndex = {FileA} )

(***************************************************************************)
(* C15. For every malformed stem (a length other than 36, a character      *)
(* other than a hyphen at offset 8, 13, 18 or 23, or a character that is   *)
(* no hexadecimal digit at any other offset) extractClientID returns the   *)
(* empty identity, and a file with such a name is never registered.        *)
(***************************************************************************)
C15_MalformedStemRejected ==
    LET HexDigits ==
            { "0", "1", "2", "3", "4", "5", "6", "7", "8", "9",
              "a", "b", "c", "d", "e", "f", "A", "B", "C", "D", "E", "F" }
        HyphenAt == {9, 14, 19, 24}
        WellFormed(s) ==
            /\ Len(s) = GuidLen
            /\ \A i \in 1..GuidLen :
                  IF i \in HyphenAt THEN s[i] = "-" ELSE s[i] \in HexDigits
        Stem(f) == TrimSuffix(Base(f), Ext(Base(f)))
    IN  \A f \in universe :
            ~WellFormed(Stem(f)) =>
                /\ extractClientID(f) = << >>
                /\ f \notin DOMAIN pathIndex

(***************************************************************************)
(* C16. For every valid identity token t, directory d and allowed          *)
(* extension e, extractClientID of the path d/t.e is exactly t, character  *)
(* for character, and a file of that name is registered under t.           *)
(***************************************************************************)
C16_ExtractInvertsFormatting ==
    \A d \in TokenDirs : \A t \in Tokens : \A e \in TokenExts :
        LET f == Join(d, t \o e) IN
        f \in universe =>
            /\ extractClientID(f) = t
            /\ f \in DOMAIN pathIndex => pathIndex[f] = t
            /\ \A id \in DOMAIN clients :
                  clients[id].DatabasePath = f => (id = t /\ clients[id].ClientID = t)

\* the file /v.d/BBBBBBBB-DDDD-BBBB-DDDD-BBBBBBBBBBBB.DB is registered under
\* the token of its name
C16_Witness ==
    LET t == Token("B", "D")
        f == Join(DirVd, t \o ExtDbUpper)
    IN  /\ f \in DOMAIN pathIndex
        /\ pathIndex[f] = t
        /\ t \in DOMAIN clients
        /\ clients[t].DatabasePath = f
        /\ Observable

(***************************************************************************)
(* C17. Only paths whose extension is .db, .sqlite or .sqlite3, compared   *)
(* without regard to case, are considered: registerDatabase and            *)
(* unregisterDatabase are never called for a path with another extension   *)
(* (such as the -wal companion of a database), whether it comes from an    *)
(* event or from the scan, no session is opened for such a path and no map *)
(* holds it.                                                               *)
(***************************************************************************)
C17_OnlyAllowedExtensions ==
    LET Allowed(f) == ToLower(Ext(f)) \in {ExtDb, ExtSqlite, ExtSqlite3} IN
    /\ \A p \in Procs : loc[p].dbPath # << >> => Allowed(loc[p].dbPath)
    /\ \A c \in calls : c[2] \in {"register", "unregister"} => Allowed(c[3])
    /\ \A h \in DOMAIN sess : Allowed(sess[h].dbPath)
    /\ \A f \in DOMAIN pathIndex : Allowed(f)
    /\ \A id \in DOMAIN clients : Allowed(clients[id].DatabasePath)

\* the -wal companion of FileA was created in the watched directory and its
\* event was handled, the file with the upper-case extension .DB was
\* registered, and the scan has finished
C17_Witness ==
    /\ << "loop", "event", FileWal, Ignored >> \in calls
    /\ FileWal \in fs
    /\ FileUpper \in DOMAIN pathIndex
    /\ DOMAIN pathIndex \subseteq {FileA, FileUpper}
    /\ Quiescent

(***************************************************************************)
(* C18. Handling a filesystem event that is neither a create nor a remove  *)
(* (a write, a chmod, a rename) leaves the registry unchanged: no record   *)
(* is inserted or removed, no session is opened or stopped, and neither    *)
(* registerDatabase nor unregisterDatabase is called.                      *)
(***************************************************************************)
C18_OtherEventsIgnored ==
    [][( /\ pc["loop"] = "select"
         /\ events # << >>
         /\ events' = Tail(events)
         /\ Head(events).Op \cap {Create, Remove} = {} )
       =>
       /\ UNCHANGED << databases, clients, pathIndex, sess, mutex >>
       /\ pc'["loop"] = "select"
       /\ loc'["loop"] = NoLocal
      ]_vars

\* FileA is registered, was written to or renamed or had its mode changed,
\* the event loop has handled that event, and FileA is registered as
\* before with its only session
C18_Witness ==
    /\ << "loop", "event", FileA, Ignored >> \in calls
    /\ << "main", "register", FileA, Ok >> \in calls
    /\ FileA \in DOMAIN pathIndex
    /\ Len(sess) = 1
    /\ LiveSessions = {1}
    /\ pc["loop"] = "select"
    /\ events = << >>

(***************************************************************************)
(* C19. An error reported by the watcher is logged and does not stop the   *)
(* event loop: receiving it changes nothing in the registry, leaves the    *)
(* pending events in place and the loop waiting for the next one, and the  *)
(* loop ends only when the manager is stopped.                             *)
(***************************************************************************)
C19_WatcherErrorNotFatal ==
    /\ [][( /\ watchErrors' < watchErrors
             /\ UNCHANGED watcherClosed )
           =>
           /\ << "File watcher error" >> \in logs'
           /\ pc'["loop"] = "select"
           /\ UNCHANGED << databases, clients, pathIndex, sess, mutex, events >>
         ]_vars
    /\ [](pc["loop"] = "exited" => (ctxDone \/ watcherClosed))

\* the loop has logged a watcher error and is now, handling a create event
\* it received afterwards, about to complete the registration of FileB
C19_Witness ==
    /\ << "File watcher error" >> \in logs
    /\ pc["loop"] = "reg_insert_path"
    /\ loc["loop"].dbPath = FileB
    /\ watchErrors = 0
    /\ ~watcherClosed

(***************************************************************************)
(* C20. When the setup of one watch directory fails (the directory is      *)
(* missing, is no directory, is not writable, or the subscription is       *)
(* refused) only that directory is skipped: the setup of every other       *)
(* configured directory is attempted, and succeeds or fails on its own     *)
(* account; the event loop is started and the startup scan goes through    *)
(* every directory; and Start returns no error.                            *)
(***************************************************************************)
C20_FailedWatchDirSkipped ==
    LET Causes == {Missing, NotDir, NotWritable, Refused}
        Attempted(d) ==
            \/ d \in watched /\ << "Watching directory", d >> \in logs
            \/ /\ d \notin watched
               /\ \E cause \in Causes : << "Failed to watch directory", d, cause >> \in logs
        Returned == << "main", "Start", << >>, Ok >> \in calls
    IN  /\ pc["main"] = "add_watch" =>
              \A i \in 1..(dirIdx - 1) : Attempted(watchDirs[i])
        /\ pc["main"] # "add_watch" =>
              /\ \A d \in Range(watchDirs) : Attempted(d)
              /\ pc["loop"] # "not_started"
        /\ \A d \in Range(watchDirs) :
              << "Failed to watch directory", d, Missing >> \in logs => dirKind[d] = Missing
        /\ \A d \in watched : dirKind[d] = IsDir
        /\ pc["main"] \notin {"add_watch", "scan_root", "scan_next", "scan_isreg",
                               "reg_lock", "reg_open", "reg_insert",
                               "reg_insert_client", "reg_insert_path"}
              => (Returned /\ dirIdx = Len(watchDirs) + 1)
        /\ \A c \in calls : c[2] = "Start" => c[4] = Ok

\* the first directory, /v, could not be watched; the second one, /w, is
\* watched; Start has returned, and a file created in /w afterwards was
\* registered by the event loop
C20_Witness ==
    /\ DirV \notin watched
    /\ \E cause \in {Missing, NotDir, NotWritable, Refused} :
          << "Failed to watch directory", DirV, cause >> \in logs
    /\ DirW \in watched
    /\ << "main", "Start", << >>, Ok >> \in calls
    /\ pc["main"] = "serving"
    /\ << "loop", "register", FileA, Ok >> \in calls
    /\ FileA \in DOMAIN pathIndex

(***************************************************************************)
(* C21. The startup scan walks only the directories whose watch setup      *)
(* succeeded: every registration the scan makes is for a file that lies    *)
(* under a watched directory, so a directory that could not be watched     *)
(* contributes no registration.                                            *)
(***************************************************************************)
C21_ScanOnlyWatched ==
    \A c \in calls :
        (c[1] = "main" /\ c[2] = "register" /\ c[4] = Ok) =>
            \E d \in watched : Dir(c[3]) = d \/ Dir(Dir(c[3])) = d

(***************************************************************************)
(* C22. During the startup scan an error on one entry does not stop the    *)
(* walk.  Whenever the walk handles an entry, whether reading it succeeds  *)
(* or fails, the entries that were still to be visited after it are still  *)
(* to be visited; and when a registration attempted by the scan is refused *)
(* or fails, the failure is logged and the walk goes on where it was.      *)
(***************************************************************************)
C22_ScanErrorDoesNotStopWalk ==
    [][ /\ ( /\ pc["main"] = "scan_next"
             /\ todo # << >>
             /\ todo' # todo )
           => \E k \in 0..Len(todo') : SubSeq(todo', k + 1, Len(todo')) = Tail(todo)
        /\ \A c \in calls' \ calls :
              (c[1] = "main" /\ c[2] = "register" /\ c[4] \in Errors) =>
                 /\ << "Failed to register existing database", c[3], c[4] >> \in logs'
                 /\ pc'["main"] = "scan_next"
                 /\ UNCHANGED scanVars
      ]_vars

(***************************************************************************)
(* C23. The client list of a status response (dashboard and /api/status)   *)
(* is in strictly ascending order of client identity and lists the         *)
(* registered clients, each exactly once.  There is one such list for a    *)
(* given registry, so two requests with no registration or unregistration  *)
(* between them produce the same list.                                     *)
(***************************************************************************)
C23_StatusListSorted ==
    handler.pc \in {"count", "encode", "written"} =>
        /\ \A i, j \in DOMAIN handler.clients :
              i < j => StrLess(handler.clients[i].clientId, handler.clients[j].clientId)
        /\ {handler.clients[i].clientId : i \in DOMAIN handler.clients} = DOMAIN clients
        /\ Len(handler.clients) = Cardinality(DOMAIN clients)

\* a response listing both clients has been written
C23_Witness ==
    /\ handler.pc = "written"
    /\ Len(handler.clients) = 2
    /\ handler.clients[1].clientId = Guid("a")
    /\ handler.clients[2].clientId = Guid("b")

(***************************************************************************)
(* C24. A status request served while registerDatabase or                  *)
(* unregisterDatabase calls are in progress never sees a partially applied *)
(* call: every client of the response has its record (its path is the      *)
(* record's path), its session entry (it is reported active) and its       *)
(* path-index entry, and both counts equal the number of listed clients.   *)
(***************************************************************************)
C24_StatusSeesWholeCalls ==
    handler.pc \in {"encode", "written"} =>
        /\ \A i \in DOMAIN handler.clients :
              LET entry == handler.clients[i] IN
              /\ entry.clientId \in DOMAIN clients
              /\ entry.databasePath = clients[entry.clientId].DatabasePath
              /\ entry.clientId \in DOMAIN databases
              /\ entry.status = "active"
              /\ entry.databasePath \in DOMAIN pathIndex
              /\ pathIndex[entry.databasePath] = entry.clientId
        /\ handler.totalClients = Len(handler.clients)
        /\ handler.activeClients = Len(handler.clients)

\* the response lists one client while the event loop, which has received
\* events about both clients, waits for the lock in unregisterDatabase
C24_Witness ==
    /\ handler.pc = "encode"
    /\ Len(handler.clients) = 1
    /\ pc["loop"] = "unreg_lock"
    /\ << "loop", "register", FileB, Ok >> \in calls

(***************************************************************************)
(* C25. Registrations of distinct clients made concurrently (by the        *)
(* startup scan and by the event loop), with status requests served in     *)
(* between, are all recorded: as long as nothing was unregistered, a       *)
(* status response lists exactly the clients whose registerDatabase call   *)
(* has returned success, once each and in ascending order, and its count   *)
(* is their number.                                                        *)
(***************************************************************************)
C25_ConcurrentRegistrationsListed ==
    LET Registered ==
            {extractClientID(c[3]) : c \in {r \in calls : r[2] = "register" /\ r[4] = Ok}}
        Listed == {handler.clients[i].clientId : i \in DOMAIN handler.clients}
    IN  ( /\ handler.pc \in {"encode", "written"}
          /\ \A c \in calls : ~(c[2] = "unregister" /\ c[4] = Ok) )
        =>
        /\ Listed = Registered
        /\ Len(handler.clients) = Cardinality(Registered)
        /\ handler.totalClients = Cardinality(Registered)
        /\ \A i, j \in DOMAIN handler.clients :
              i < j => StrLess(handler.clients[i].clientId, handler.clients[j].clientId)

\* the scan registered one client and the event loop the other; the response
\* lists both
C25_Witness ==
    /\ handler.pc = "written"
    /\ << "main", "register", FileA, Ok >> \in calls
    /\ << "loop", "register", FileB, Ok >> \in calls
    /\ \A c \in calls : c[2] # "unregister"
    /\ handler.totalClients = 2
    /\ Len(handler.clients) = 2

(***************************************************************************)
(* C26. On shutdown Stop stops the session of every client in the          *)
(* registry, none skipped, however many there are: the step that runs the  *)
(* loop of Stop leaves no session of a registered client running, and      *)
(* logs each of them as stopped.                                           *)
(***************************************************************************)
C26_StopStopsEverySession ==
    [][ (pc["main"] = "stop_softclose" /\ pc'["main"] = "stopped") =>
           \A id \in DOMAIN databases :
              /\ sess'[databases[id]].state = "softclosed"
              /\ << "Stopped replication", id >> \in logs'
      ]_vars

\* Stop has returned after stopping the sessions of two registered clients
C26_Witness ==
    /\ pc["main"] = "stopped"
    /\ Cardinality(DOMAIN databases) = 2
    /\ \A id \in DOMAIN databases :
          /\ sess[databases[id]].state = "softclosed"
          /\ << "Stopped replication", id >> \in logs

(***************************************************************************)
(* C27. Once Stop has stopped the sessions, no file-system event is turned *)
(* into a registration any more, so no session is running when Stop has    *)
(* returned.                                                               *)
(***************************************************************************)
C27_NoSessionAfterStop ==
    pc["main"] = "stopped" => LiveSessions = {}

(***************************************************************************)
(* C28. During shutdown the sessions are stopped while the exclusive lock  *)
(* is released: Stop does not hold the lock while it is about to stop the  *)
(* sessions, so a status request that arrives then can take the read lock. *)
(***************************************************************************)
C28_StopDrainsUnlocked ==
    pc["main"] = "stop_softclose" => mutex # "main"

(***************************************************************************)
(* C29. A status request holds the read lock only while it copies the      *)
(* registry: when the response is about to be rendered and written, the    *)
(* lock has been released.                                                 *)
(***************************************************************************)
C29_StatusRendersUnlocked ==
    handler.pc = "encode" => mutex # "status"

(***************************************************************************)
(* C30. unregisterDatabase removes the record and both index entries       *)
(* whatever the outcome of stopping the session: after the close, failed   *)
(* or not, the call goes on to the deletions with the lock held; when it   *)
(* returns, the identity and the path are no longer registered; and it     *)
(* never reports an error.                                                 *)
(***************************************************************************)
C30_UnregisterIgnoresCloseError ==
    /\ [][ \A p \in Procs :
              /\ (pc[p] = "unreg_close" /\ pc'[p] # pc[p]) =>
                    /\ pc'[p] = "unreg_delete"
                    /\ mutex' = p
                    /\ UNCHANGED << loc, databases, clients, pathIndex >>
              /\ (pc[p] = "unreg_delete_path" /\ pc'[p] # pc[p]) =>
                    /\ << p, "unregister", loc[p].dbPath, Ok >> \in calls'
                    /\ loc[p].clientID \notin DOMAIN databases'
                    /\ loc[p].clientID \notin DOMAIN clients'
                    /\ loc[p].dbPath \notin DOMAIN pathIndex'
         ]_vars
    /\ [](\A c \in calls : c[2] = "unregister" => c[4] \in {Ok, Skipped})

\* closing the session of FileA reported an error; the unregistration has
\* returned success and the client is gone from the three maps
C30_Witness ==
    /\ << "loop", "close", FileA, ErrClose >> \in calls
    /\ << "loop", "unregister", FileA, Ok >> \in calls
    /\ pc["loop"] = "select"
    /\ Guid("a") \notin DOMAIN databases
    /\ Guid("a") \notin DOMAIN clients
    /\ FileA \notin DOMAIN pathIndex
    /\ \A h \in DOMAIN sess : sess[h].state = "closed"

(***************************************************************************)
(* C31. The remote path of every session is "databases/" followed by the   *)
(* client identity, in the bucket given at startup.  It depends on the     *)
(* identity alone: sessions of one identity have the same remote path      *)
(* whatever the file's directory, extension or registration time, sessions *)
(* of different identities have different remote paths, and a status       *)
(* response reports for each client the remote path of its session.        *)
(***************************************************************************)
C31_RemotePathFromIdentity ==
    LET Root == << "d", "a", "t", "a", "b", "a", "s", "e", "s", "/" >> IN
    /\ \A h \in DOMAIN sess :
          /\ sess[h].Path = Root \o sess[h].clientID
          /\ sess[h].Bucket = Bucket
    /\ \A id \in DOMAIN databases : sess[databases[id]].Path = Root \o id
    /\ \A h1, h2 \in DOMAIN sess :
          (sess[h1].Path = sess[h2].Path) <=> (sess[h1].clientID = sess[h2].clientID)
    /\ handler.pc \in {"count", "encode", "written"} =>
          \A i \in DOMAIN handler.clients :
             LET entry == handler.clients[i] IN
             /\ entry.s3Path = Root \o entry.clientId
             /\ entry.clientId \in DOMAIN databases
                   => entry.s3Path = sess[databases[entry.clientId]].Path

\* the identity a was registered twice, from files that differ in their
\* extension and at different times, with the same remote path, and a status
\* response reporting that path has been written
C31_Witness ==
    /\ \E h1, h2 \in DOMAIN sess :
          /\ sess[h1].dbPath = FileA
          /\ sess[h2].dbPath = FileA2
          /\ sess[h1].Path = sess[h2].Path
    /\ handler.pc = "written"
    /\ Len(handler.clients) = 1
    /\ handler.clients[1].clientId = Guid("a")
    /\ handler.clients[1].s3Path = sess[databases[Guid("a")]].Path

(***************************************************************************)
(* C32. Every registration refused because the session could not be opened *)
(* is logged as a failure for that file, whether the file was found by the *)
(* startup scan or by a create event.                                      *)
(***************************************************************************)
C32_FailedOpenLogged ==
    \A c \in calls :
        (c[2] = "register" /\ c[4] = ErrOpen) =>
            \E l \in logs : Len(l) = 3 /\ l[2] = c[3] /\ l[3] = ErrOpen

(***************************************************************************)
(* C33. Start makes every watch subscription and starts the event loop     *)
(* before the startup scan reads a directory; hence, once the scan has     *)
(* finished and the delivered events are handled, every existing valid     *)
(* client file of a watched directory has been discovered: the scan        *)
(* visited it or the event loop handled a create event for it.             *)
(***************************************************************************)
C33_FileNeverMissed ==
    /\ pc["main"] \in {"scan_root", "scan_next", "scan_isreg"} =>
          /\ pc["loop"] # "not_started"
          /\ \A d \in Range(watchDirs) :
                \E l \in logs : l[1] \in {"Watching directory", "Failed to watch directory"}
                                /\ l[2] = d
    /\ Quiescent =>
          \A f \in fs :
             ( /\ isDatabaseFile(f)
               /\ extractClientID(f) # << >>
               /\ Dir(f) \in watched )
             => \E c \in calls : c[2] = "register" /\ c[3] = f

(***************************************************************************)
(* C34. The event loop handles the events one at a time and in delivery    *)
(* order: an event is taken only when the handling of the previous one,    *)
(* with its register or unregister call, is over, and it is the oldest     *)
(* pending event.  So, for a path whose identity the scan never touched,   *)
(* once all events are handled: a path that was registered by a create     *)
(* event and no longer exists is not registered, and an existing path for  *)
(* which a remove event was handled, whose identity met no refusal or      *)
(* failed open, is registered.                                             *)
(***************************************************************************)
C34_EventsInOrder ==
    /\ [][ (Len(events') < Len(events) /\ ~watcherClosed') =>
              /\ pc["loop"] = "select"
              /\ events' = Tail(events)
         ]_vars
    /\ [](Quiescent =>
            \A f \in universe :
               LET id == extractClientID(f)
                   LoopOnly == \A c \in CallsAbout(id) : c[1] = "loop"
               IN  /\ ( /\ LoopOnly
                        /\ << "loop", "register", f, Ok >> \in calls
                        /\ f \notin fs )
                      => f \notin DOMAIN pathIndex
                   /\ ( /\ LoopOnly
                        /\ \E c \in calls : c[2] = "unregister" /\ c[3] = f
                        /\ \A c \in CallsAbout(id) : c[4] \notin Errors
                        /\ f \in fs )
                      => f \in DOMAIN pathIndex)

\* remove then create, the scan having seen neither: the remove event of
\* FileA was handled first, then its create event; FileA exists and is
\* registered
C34_Witness ==
    /\ Quiescent
    /\ \A c \in calls : c[1] = "loop" \/ c[2] = "Start"
    /\ << "loop", "unregister", FileA, Skipped >> \in calls
    /\ << "loop", "register", FileA, Ok >> \in calls
    /\ FileA \in fs
    /\ FileA \in DOMAIN pathIndex

(***************************************************************************)
(* C35. Every entry of the path index maps a path to the identity          *)
(* extracted from that path.  Consequently two branches are never taken:   *)
(* registerDatabase never refuses a path as already mapped (whenever the   *)
(* lock can be taken, an indexed path has its identity registered, so the  *)
(* earlier check answers), and unregisterDatabase never finds the path     *)
(* indexed without a session for its identity.                             *)
(***************************************************************************)
C35_PathIndexAgreesWithStem ==
    /\ \A f \in DOMAIN pathIndex : pathIndex[f] = extractClientID(f)
    /\ \A c \in calls : c[4] # ErrConflict
    /\ mutex = NoProc =>
          \A f \in DOMAIN pathIndex : extractClientID(f) \in DOMAIN databases
    /\ \A p \in Procs :
          pc[p] = "unreg_close" =>
             /\ loc[p].clientID = extractClientID(loc[p].dbPath)
             /\ loc[p].clientID \in DOMAIN databases

\* two paths are indexed, and unregisterDatabase has looked one of them up
\* and is about to close its session
C35_Witness ==
    /\ Cardinality(DOMAIN pathIndex) = 2
    /\ pc["loop"] = "unreg_close"
    /\ loc["loop"].dbPath \in DOMAIN pathIndex
    /\ loc["loop"].clientID \in DOMAIN databases
    /\ \E c \in calls : c[2] = "register" /\ c[4] = ErrAlready

(***************************************************************************)
(* C36. A status response never reports an inactive client, and its        *)
(* totalClients equals its activeClients: whenever the registry can be     *)
(* read (no writer holds the lock), the identities with a record are the   *)
(* identities with a session entry.                                        *)
(***************************************************************************)
C36_NeverInactive ==
    /\ mutex \notin Procs => DOMAIN clients = DOMAIN databases
    /\ handler.pc \in {"count", "encode", "written"} =>
          \A i \in DOMAIN handler.clients : handler.clients[i].status # "inactive"
    /\ handler.pc \in {"encode", "written"} =>
          handler.totalClients = handler.activeClients

\* after one client was unregistered, a response reporting the remaining
\* client, active, has been written
C36_Witness ==
    /\ handler.pc = "written"
    /\ \E c \in calls : c[2] = "unregister" /\ c[4] = Ok
    /\ handler.totalClients = 1
    /\ handler.activeClients = 1
    /\ handler.clients[1].status = "active"

C38_ScanRegistersOnlyObservable ==
    /\ [](\A c \in calls :
             c[1] = "main" /\ c[2] = "register" /\ c[4] = Ok => Dir(c[3]) \in watched)
    /\ [][\A f \in fs \ fs' :
             /\ << "main", "register", f, Ok >> \in calls
             /\ ~watcherClosed
             => /\ events # events'
                /\ events'[Len(events')] = [Op |-> {Remove}, Name |-> f]]_vars

(***************************************************************************)
(* C39. Once Stop has cancelled the context and closed the watcher, no     *)
(* event is left to receive, and the event loop eventually returns, also   *)
(* when the close found it in the middle of handling an event.             *)
(***************************************************************************)
C39_LoopReturnsAfterStop ==
    /\ [](watcherClosed => ctxDone /\ events = << >>)
    /\ (ctxDone /\ watcherClosed) ~> (pc["loop"] = "exited")

\* the loop has returned after Stop closed the watcher, having handled an
\* event before
C39_Witness ==
    /\ ctxDone
    /\ watcherClosed
    /\ pc["loop"] = "exited"
    /\ \E c \in calls : c[1] = "loop"

====
